---- MODULE Spec2Model ----
(***************************************************************************)
(* The maintenance-monitoring backend (express server over a JSON file):   *)
(* the in-memory store `db`, its persisted copy, the request handlers, the *)
(* alert evaluator with its re-notification gap, the notifier and the      *)
(* periodic maintenance sweep.                                             *)
(*                                                                         *)
(* Time is counted in minutes since the epoch.  A nullable JavaScript      *)
(* value is the empty tuple (null / undefined / "") or a one-element tuple *)
(* holding the value.  A JSON value of a request body carries its type.    *)
(***************************************************************************)
EXTENDS Integers, Sequences, FiniteSets, TLC

VARIABLES
    db,         \* the in-memory store: [machines: Seq(Machine), vitals: Seq(Vital)]
    disk,       \* the content of db.json as last written by saveDb
    env,        \* process.env: [to: BOOLEAN, smtp: BOOLEAN]
    now,        \* the server clock, in minutes
    nextId,     \* the next identifier generateId hands out
    inflight,   \* append-vital requests suspended at `await sendAlertEmail`
    mail,       \* every call of sendAlertEmail so far, in order
    console,    \* the last line sendAlertEmail wrote to the console
    floating,   \* the deliveries under way that no caller awaits
    last        \* the last request handled: its input and its response

vars == <<db, disk, env, now, nextId, inflight, mail, console, floating, last>>

----------------------------------------------------------------------------
(* Bounds of the model *)

MaxMachines == 2
MaxVitals == 3
MaxInflight == 2
MaxIds == 4

\* the vitals of a run that simulates readings or works on the whole store
MaxSimVitals == 2

----------------------------------------------------------------------------
(* Constants of the program *)

MinGapMinutes == 30
LookaheadDays == 7
MinutesPerDay == 1440
DefaultTemperature == 80
DefaultVibration == 10
DefaultPressure == 200

----------------------------------------------------------------------------
(* JavaScript values *)

Null == <<>>
Some(v) == <<v>>
Truthy(x) == x # Null

Num(n) == [type |-> "number", v |-> n]
Str == [type |-> "string", v |-> 0]
Undef == [type |-> "undefined", v |-> 0]

\* Date.prototype.toISOString and new Date(isoString): the string keeps the
\* instant to the millisecond, and a clock reading is a whole number of minutes
ToISOString(t) == Some(t)
NewDate(s) == s[1]

\* A threshold is a JSON number.  The model keeps it in hundredths of its
\* unit, finer than the tenths that the simulated readings are rounded to.
ThresholdScale == 100

\* a variant without limits
ZeroThresholds == [temperature |-> 0, vibration |-> 0, pressure |-> 0]

DefaultThresholds ==
    [temperature |-> ThresholdScale * DefaultTemperature,
     vibration |-> ThresholdScale * DefaultVibration,
     pressure |-> ThresholdScale * DefaultPressure]

\* `x || fallback`
OrElse(x, fallback) == IF Truthy(x) THEN x[1] ELSE fallback

----------------------------------------------------------------------------
(* Sequence helpers *)

\* a variant that takes the last element when none has the id
FindIndexOrLast(s, id) ==
    IF \E i \in DOMAIN s : s[i].id = id
    THEN CHOOSE i \in DOMAIN s : s[i].id = id
    ELSE Len(s)

RECURSIVE SelectIdx(_, _, _)
\* Array.prototype.findIndex: the first index whose element has the id, 0 if none
SelectIdx(s, id, i) ==
    IF i > Len(s) THEN 0
    ELSE IF s[i].id = id THEN i
    ELSE SelectIdx(s, id, i + 1)

FindIndex(s, id) == SelectIdx(s, id, 1)

\* Array.prototype.splice(idx, 1)
Splice(s, idx) == [i \in 1..(Len(s) - 1) |-> IF i < idx THEN s[i] ELSE s[i + 1]]

----------------------------------------------------------------------------
(* Store *)

EmptyDb == [machines |-> <<>>, vitals |-> <<>>]

\* a variant that leaves the file as it is
SaveDbSkipped(d) == disk' = disk

\* saveDb(db): the whole store is written over the file
SaveDb(d) == disk' = d

\* the response of a handler, with the request it answers
Response(op, id, req, status, body) ==
    [op |-> op, id |-> id, req |-> req, status |-> status, body |-> body]

----------------------------------------------------------------------------
(* Notifier *)

\* sendAlertEmail: TRUE when the call reaches transporter.sendMail and so
\* suspends its caller's await until the delivery settles
Delivers(e) == e.to /\ e.smtp

\* the record of one call of sendAlertEmail
Notice(kind, id, at) == [kind |-> kind, id |-> id, at |-> at]

\* what a call of sendAlertEmail that returns at once writes to the console:
\* the warning without ALERT_EMAIL_TO, the simulated alert without a transporter
Logged(e) == IF ~e.to THEN "warn: ALERT_EMAIL_TO not set" ELSE "log: EMAIL ALERT (simulated)"

\* what a delivery writes when it settles: the try block ends or the catch
\* block runs
Outcome(delivered) ==
    IF delivered THEN "log: Alert email sent" ELSE "error: Error sending alert email"

----------------------------------------------------------------------------
(* POST /api/machines *)

\* a variant that rejects a body only when both fields are missing
InvalidBoth(body) == body.name = "" /\ ~Truthy(body.nextMaintenanceDate)

\* !name || !nextMaintenanceDate
Invalid(body) == body.name = "" \/ ~Truthy(body.nextMaintenanceDate)

CreateMachine(body) ==
    IF Invalid(body)
    THEN /\ last' = Response("create", 0, body, 400, Null)
         /\ UNCHANGED <<db, disk, env, now, nextId, inflight, mail, console, floating>>
    ELSE LET machine ==
                 [id |-> nextId,
                  name |-> body.name,
                  code |-> "",
                  location |-> "",
                  nextMaintenanceDate |-> body.nextMaintenanceDate,
                  responsibleEmail |-> "",
                  thresholds |-> Some(OrElse(body.thresholds, DefaultThresholds)),
                  lastMaintenanceReminderSent |-> Null,
                  lastAbnormalAlertSent |-> Null,
                  createdAt |-> ToISOString(now)]
         IN /\ db' = [db EXCEPT !.machines = Append(@, machine)]
            /\ SaveDb(db')
            /\ nextId' = nextId + 1
            /\ last' = Response("create", machine.id, body, 201, Some(machine))
            /\ UNCHANGED <<env, now, inflight, mail, console, floating>>

----------------------------------------------------------------------------
(* PUT /api/machines/:id *)

\* a variant in which the id of the body wins: { ...db.machines[idx], id, ...req.body }
MergeBodyWins(machine, body, id) ==
    [k \in (DOMAIN machine) \cup (DOMAIN body) \cup {"id"} |->
        IF k \in DOMAIN body THEN body[k]
        ELSE IF k = "id" THEN id
        ELSE machine[k]]

\* { ...db.machines[idx], ...req.body, id }
Merge(machine, body, id) ==
    [k \in (DOMAIN machine) \cup (DOMAIN body) \cup {"id"} |->
        IF k = "id" THEN id
        ELSE IF k \in DOMAIN body THEN body[k]
        ELSE machine[k]]

\* The handlers suspended in `await sendAlertEmail` hold the machine object they
\* found at their start.  Assigning a new object to db.machines[idx], or
\* splicing the slot out, leaves them holding an object that is no longer an
\* element of db.machines.
Detach(pending, id) ==
    {IF p.id = id THEN [p EXCEPT !.attached = FALSE] ELSE p : p \in pending}

UpdateMachine(id, body) ==
    LET idx == FindIndex(db.machines, id)
    IN IF idx = 0
       THEN /\ last' = Response("update", id, body, 404, Null)
            /\ UNCHANGED <<db, disk, env, now, nextId, inflight, mail, console, floating>>
       ELSE /\ db' = [db EXCEPT !.machines[idx] = Merge(@, body, id)]
            /\ SaveDb(db')
            /\ inflight' = Detach(inflight, id)
            /\ last' = Response("update", id, body, 200, Some(db'.machines[idx]))
            /\ UNCHANGED <<env, now, nextId, mail, console, floating>>

----------------------------------------------------------------------------
(* DELETE /api/machines/:id *)

\* a variant without the cascade
AllVitals(vitals, id) == vitals

\* a variant that drops the vitals of every machine
NoVitals(vitals, id) == <<>>

\* a variant that misses the vital pushed last, the one of a request that is
\* still waiting
VitalsButNewest(vitals, id) ==
    LET Keep(v) == v.machineId # id \/ v = vitals[Len(vitals)]
    IN SelectSeq(vitals, Keep)

\* db.vitals.filter(v => v.machineId !== id)
OtherVitals(vitals, id) ==
    LET Keep(v) == v.machineId # id
    IN SelectSeq(vitals, Keep)

DeleteMachine(id) ==
    LET idx == FindIndex(db.machines, id)
    IN IF idx = 0
       THEN /\ last' = Response("delete", id, Null, 404, Null)
            /\ UNCHANGED <<db, disk, env, now, nextId, inflight, mail, console, floating>>
       ELSE /\ db' = [machines |-> Splice(db.machines, idx),
                      vitals |-> OtherVitals(db.vitals, id)]
            /\ SaveDb(db')
            /\ inflight' = Detach(inflight, id)
            /\ last' = Response("delete", id, Null, 204, Null)
            /\ UNCHANGED <<env, now, nextId, mail, console, floating>>

----------------------------------------------------------------------------
(* GET /api/machines/:id/vitals *)

Digits == <<"0", "1", "2", "3", "4", "5", "6", "7", "8", "9">>

IsDigit(c) == \E d \in DOMAIN Digits : Digits[d] = c

DigitValue(c) == (CHOOSE d \in DOMAIN Digits : Digits[d] = c) - 1

RECURSIVE ParseDigits(_, _, _)
\* the value of the longest run of digits at the start of s[i..], from acc
ParseDigits(s, i, acc) ==
    IF i > Len(s) \/ ~IsDigit(s[i]) THEN acc
    ELSE ParseDigits(s, i + 1, 10 * acc + DigitValue(s[i]))

RECURSIVE SkipSpace(_, _)
SkipSpace(s, i) == IF i <= Len(s) /\ s[i] = " " THEN SkipSpace(s, i + 1) ELSE i

\* parseInt(s, 10) of a string given as its sequence of characters: leading
\* blanks, an optional sign, then digits up to the first other character;
\* Null is NaN
ParseInt(s) ==
    LET i == SkipSpace(s, 1)
        signed == i <= Len(s) /\ s[i] \in {"-", "+"}
        j == IF signed THEN i + 1 ELSE i
    IN IF j > Len(s) \/ ~IsDigit(s[j]) THEN Null
       ELSE IF signed /\ s[i] = "-" THEN Some(0 - ParseDigits(s, j, 0))
       ELSE Some(ParseDigits(s, j, 0))

DefaultLimitString == <<"5", "0">>

\* unary minus on a number or NaN
Negate(n) == IF n = Null THEN Null ELSE Some(0 - n[1])

\* Array.prototype.slice(start): NaN counts as 0, a negative start counts
\* from the end
Slice(s, start) ==
    LET rel == IF start = Null THEN 0 ELSE start[1]
        k == IF rel < 0
             THEN (IF Len(s) + rel > 0 THEN Len(s) + rel ELSE 0)
             ELSE (IF rel < Len(s) THEN rel ELSE Len(s))
    IN SubSeq(s, k + 1, Len(s))

RECURSIVE InsertByTime(_, _)
\* v goes behind every element that does not come after it
InsertByTime(sorted, v) ==
    IF sorted = <<>> THEN <<v>>
    ELSE IF NewDate(sorted[Len(sorted)].timestamp) - NewDate(v.timestamp) > 0
         THEN Append(InsertByTime(SubSeq(sorted, 1, Len(sorted) - 1), v),
                     sorted[Len(sorted)])
         ELSE Append(sorted, v)

RECURSIVE SortByTime(_)
\* Array.prototype.sort with (a, b) => new Date(a.timestamp) - new Date(b.timestamp):
\* ascending and stable
SortByTime(s) ==
    IF s = <<>> THEN <<>>
    ELSE InsertByTime(SortByTime(SubSeq(s, 1, Len(s) - 1)), s[Len(s)])

\* db.vitals.filter(v => v.machineId === id)
VitalsOf(vitals, id) ==
    LET Mine(v) == v.machineId = id
    IN SelectSeq(vitals, Mine)

\* req.query.limit || '50', then parseInt
QueryLimit(q) == ParseInt(OrElse(q, DefaultLimitString))

ListVitals(id, q) ==
    /\ last' = Response("list", id, q, 200,
                        Some(Slice(SortByTime(VitalsOf(db.vitals, id)),
                                   Negate(QueryLimit(q)))))
    /\ UNCHANGED <<db, disk, env, now, nextId, inflight, mail, console, floating>>

----------------------------------------------------------------------------
(* POST /api/machines/:id/vitals *)

\* a variant that stores 0 for a reading that is no number
NumberOrZero(x) == IF x.type = "number" THEN Some(x.v) ELSE Some(0)

\* typeof x === 'number' ? x : null
NumberOrNull(x) == IF x.type = "number" THEN Some(x.v) ELSE Null

\* a variant that counts a reading equal to its threshold
ExceedsOrEquals(reading, threshold) ==
    reading # Null /\ (ThresholdScale \div 10) * reading[1] >= threshold

\* vital.x !== null && vital.x > thresholds.x, with the reading in tenths of
\* its unit and the threshold in hundredths
Exceeds(reading, threshold) ==
    reading # Null /\ (ThresholdScale \div 10) * reading[1] > threshold

Abnormal(vital, thresholds) ==
    \/ Exceeds(vital.temperature, thresholds.temperature)
    \/ Exceeds(vital.vibration, thresholds.vibration)
    \/ Exceeds(vital.pressure, thresholds.pressure)

\* a variant that lets an alert through at an elapsed time equal to the gap
AlertDueAtGap(machine, t) ==
    \/ ~Truthy(machine.lastAbnormalAlertSent)
    \/ t - NewDate(machine.lastAbnormalAlertSent) >= MinGapMinutes

\* !lastAlert || (now - lastAlert) / (1000 * 60) > minGapMinutes
AlertDue(machine, t) ==
    \/ ~Truthy(machine.lastAbnormalAlertSent)
    \/ t - NewDate(machine.lastAbnormalAlertSent) > MinGapMinutes

\* a variant that stamps the reminder of the machine as well
StampBoth(machines, id, t) ==
    [i \in DOMAIN machines |->
        IF machines[i].id = id
        THEN [machines[i] EXCEPT !.lastAbnormalAlertSent = ToISOString(t),
                                 !.lastMaintenanceReminderSent = ToISOString(t)]
        ELSE machines[i]]

\* machine.lastAbnormalAlertSent = now.toISOString(), on the object the handler holds
StampAlert(machines, id, t) ==
    [i \in DOMAIN machines |->
        IF machines[i].id = id
        THEN [machines[i] EXCEPT !.lastAbnormalAlertSent = ToISOString(t)]
        ELSE machines[i]]

\* a variant that reports a breach only when a notification goes out for it
VerdictWhenSent(vital, machine) ==
    /\ Abnormal(vital, OrElse(machine.thresholds, DefaultThresholds))
    /\ AlertDue(machine, now)

\* the flag `abnormal` of the handler: the comparisons with machine.thresholds,
\* or with the defaults when the machine has none
Verdict(vital, machine) ==
    Abnormal(vital, OrElse(machine.thresholds, DefaultThresholds))

AppendVital(id, body) ==
    LET idx == FindIndex(db.machines, id)
    IN IF idx = 0
       THEN /\ last' = Response("append", id, body, 404, Null)
            /\ UNCHANGED <<db, disk, env, now, nextId, inflight, mail, console, floating>>
       ELSE LET machine == db.machines[idx]
                vital == [id |-> nextId,
                          machineId |-> id,
                          temperature |-> NumberOrNull(body.temperature),
                          vibration |-> NumberOrNull(body.vibration),
                          pressure |-> NumberOrNull(body.pressure),
                          timestamp |-> Some(OrElse(body.timestamp, now))]
                pushed == [db EXCEPT !.vitals = Append(@, vital)]
                abnormal == Verdict(vital, machine)
                answer == Some([vital |-> vital, abnormal |-> abnormal])
            IN /\ nextId' = nextId + 1
               /\ UNCHANGED <<env, now, floating>>
               /\ IF abnormal /\ AlertDue(machine, now)
                  THEN /\ mail' = Append(mail, Notice("alert", id, now))
                       /\ IF Delivers(env)
                          THEN /\ db' = pushed
                               /\ inflight' = inflight \cup
                                     {[id |-> id, req |-> body, at |-> now,
                                       attached |-> TRUE, answer |-> answer]}
                               /\ last' = Response("append", id, body, 0, Null)
                               /\ UNCHANGED <<disk, console>>
                          ELSE /\ db' = [pushed EXCEPT !.machines =
                                            StampAlert(@, id, now)]
                               /\ SaveDb(db')
                               /\ console' = Logged(env)
                               /\ last' = Response("append", id, body, 201, answer)
                               /\ UNCHANGED inflight
                  ELSE /\ db' = pushed
                       /\ SaveDb(db')
                       /\ last' = Response("append", id, body, 201, answer)
                       /\ UNCHANGED <<inflight, mail, console>>

\* transporter.sendMail settles (delivered, or failed and logged): the handler
\* resumes after its await
\* a variant that lets a failed delivery reach the caller: the request is
\* answered with an error and the store is not saved
MailSettledThrows(p, delivered) ==
    /\ p \in inflight
    /\ inflight' = inflight \ {p}
    /\ console' = Outcome(delivered)
    /\ db' = IF p.attached /\ delivered
             THEN [db EXCEPT !.machines = StampAlert(@, p.id, p.at)]
             ELSE db
    /\ IF delivered THEN SaveDb(db') ELSE UNCHANGED disk
    /\ last' = IF delivered
               THEN Response("append", p.id, p.req, 201, p.answer)
               ELSE Response("append", p.id, p.req, 500, Null)
    /\ UNCHANGED <<env, now, nextId, mail, floating>>

\* a variant that pushes the vital after the await, when it is not in the
\* store then
MailSettledRestores(p, delivered) ==
    /\ p \in inflight
    /\ inflight' = inflight \ {p}
    /\ console' = Outcome(delivered)
    /\ db' = [machines |-> IF p.attached THEN StampAlert(db.machines, p.id, p.at)
                           ELSE db.machines,
              vitals |-> IF \E i \in DOMAIN db.vitals : db.vitals[i] = p.answer[1].vital
                         THEN db.vitals
                         ELSE Append(db.vitals, p.answer[1].vital)]
    /\ SaveDb(db')
    /\ last' = Response("append", p.id, p.req, 201, p.answer)
    /\ UNCHANGED <<env, now, nextId, mail, floating>>

\* sendMail settles, fulfilled or rejected: sendAlertEmail logs the outcome
\* and returns, and the handler goes on after its await
MailSettled(p, delivered) ==
    /\ p \in inflight
    /\ inflight' = inflight \ {p}
    /\ console' = Outcome(delivered)
    /\ db' = IF p.attached
             THEN [db EXCEPT !.machines = StampAlert(@, p.id, p.at)]
             ELSE db
    /\ SaveDb(db')
    /\ last' = Response("append", p.id, p.req, 201, p.answer)
    /\ UNCHANGED <<env, now, nextId, mail, floating>>

----------------------------------------------------------------------------
(* checkUpcomingMaintenance, run by setInterval *)

\* a variant that waits for more than a day since the last reminder
ReminderDueLate(machine, t) ==
    /\ Truthy(machine.nextMaintenanceDate)
    /\ NewDate(machine.nextMaintenanceDate) - t <= LookaheadDays * MinutesPerDay
    /\ \/ ~Truthy(machine.lastMaintenanceReminderSent)
       \/ t - NewDate(machine.lastMaintenanceReminderSent) > MinutesPerDay

\* a variant that never reminds a machine twice
ReminderDueOnce(machine, t) ==
    /\ Truthy(machine.nextMaintenanceDate)
    /\ NewDate(machine.nextMaintenanceDate) - t <= LookaheadDays * MinutesPerDay
    /\ ~Truthy(machine.lastMaintenanceReminderSent)

\* a variant that reminds at every sweep
ReminderDueEverySweep(machine, t) ==
    /\ Truthy(machine.nextMaintenanceDate)
    /\ NewDate(machine.nextMaintenanceDate) - t <= LookaheadDays * MinutesPerDay

\* diffDays <= lookaheadDays, and no reminder yet or one at least a day old.
\* The assignment to diffDaysMessage of an overdue machine sets a global that
\* nothing reads.
ReminderDue(machine, t) ==
    /\ Truthy(machine.nextMaintenanceDate)
    /\ NewDate(machine.nextMaintenanceDate) - t <= LookaheadDays * MinutesPerDay
    /\ \/ ~Truthy(machine.lastMaintenanceReminderSent)
       \/ t - NewDate(machine.lastMaintenanceReminderSent) >= MinutesPerDay

RECURSIVE Reminders(_, _, _)
\* the calls of sendAlertEmail of one sweep, in the order of db.machines
Reminders(machines, t, i) ==
    IF i > Len(machines) THEN <<>>
    ELSE IF ReminderDue(machines[i], t)
         THEN <<Notice("reminder", machines[i].id, t)>> \o Reminders(machines, t, i + 1)
         ELSE Reminders(machines, t, i + 1)

CheckUpcomingMaintenance ==
    /\ db' = [db EXCEPT !.machines =
                 [i \in DOMAIN @ |->
                     IF ReminderDue(@[i], now)
                     THEN [@[i] EXCEPT !.lastMaintenanceReminderSent = ToISOString(now)]
                     ELSE @[i]]]
    /\ mail' = mail \o Reminders(db.machines, now, 1)
    /\ IF Reminders(db.machines, now, 1) = <<>>
       THEN UNCHANGED <<console, floating>>
       ELSE IF Delivers(env)
            THEN /\ floating' = floating + Len(Reminders(db.machines, now, 1))
                 /\ UNCHANGED console
            ELSE /\ console' = Logged(env)
                 /\ UNCHANGED floating
    /\ SaveDb(db')
    /\ last' = Response("sweep", 0, Some(now), 0, Null)
    /\ UNCHANGED <<env, now, nextId, inflight>>

\* a delivery that checkUpcomingMaintenance started settles: sendAlertEmail
\* logs the outcome, and nothing waits for it
ReminderSettled(delivered) ==
    /\ floating > 0
    /\ floating' = floating - 1
    /\ console' = Outcome(delivered)
    /\ last' = Response("settled", 0, Null, 0, Null)
    /\ UNCHANGED <<db, disk, env, now, nextId, inflight, mail>>

----------------------------------------------------------------------------
(* GET /api/machines and GET /api/health *)

\* a variant that answers with the newest machine first
ListMachinesReversed ==
    /\ last' = Response("machines", 0, Null, 200,
                        Some([i \in DOMAIN db.machines |->
                                 db.machines[Len(db.machines) + 1 - i]]))
    /\ UNCHANGED <<db, disk, env, now, nextId, inflight, mail, console, floating>>

\* res.json(db.machines)
ListMachines ==
    /\ last' = Response("machines", 0, Null, 200, Some(db.machines))
    /\ UNCHANGED <<db, disk, env, now, nextId, inflight, mail, console, floating>>

\* a variant that counts the vitals
HealthCountsVitals ==
    /\ last' = Response("health", 0, Null, 200, Some(Len(db.vitals)))
    /\ UNCHANGED <<db, disk, env, now, nextId, inflight, mail, console, floating>>

Health ==
    /\ last' = Response("health", 0, Null, 200, Some(Len(db.machines)))
    /\ UNCHANGED <<db, disk, env, now, nextId, inflight, mail, console, floating>>

----------------------------------------------------------------------------
(* POST /api/machines/:id/vitals/simulate *)

\* Math.random() is k / RandomSteps for a k in 0 .. RandomSteps - 1
RandomSteps == 1000

\* a variant that spreads upwards only: base + random * 2 * spread
RandAboveBase10(base, spread, k) ==
    (2 * (base * RandomSteps + ThresholdScale * spread * 2 * k)
         + (ThresholdScale \div 10) * RandomSteps)
        \div (2 * (ThresholdScale \div 10) * RandomSteps)

\* a variant that takes the spread for half of the width it gives:
\* base + (random * 2 - 1) * 2 * spread
RandAroundTwice10(base, spread, k) ==
    (2 * (base * RandomSteps + ThresholdScale * 2 * spread * (2 * k - RandomSteps))
         + (ThresholdScale \div 10) * RandomSteps)
        \div (2 * (ThresholdScale \div 10) * RandomSteps)

\* Math.round(randAround(base, spread) * 10), the reading in tenths, for a
\* base in hundredths and a spread in whole units:
\* base + (k / RandomSteps * 2 - 1) * spread, times ten, rounded half up
RandAround10(base, spread, k) ==
    (2 * (base * RandomSteps + ThresholdScale * spread * (2 * k - RandomSteps))
         + (ThresholdScale \div 10) * RandomSteps)
        \div (2 * (ThresholdScale \div 10) * RandomSteps)

TemperatureOffset == 10
TemperatureSpread == 8
VibrationOffset == 3
VibrationSpread == 3
PressureOffset == 30
PressureSpread == 20

\* a variant that treats the generated reading as an alert and stamps the
\* machine
SimulatedAlerts(d, vital) ==
    [d EXCEPT !.vitals = Append(@, vital),
              !.machines = StampAlert(@, vital.machineId, vital.timestamp[1] + 1)]

\* db.vitals.push(vital)
Simulated(d, vital) == [d EXCEPT !.vitals = Append(@, vital)]

SimulateVital(id, kt, kv, kp) ==
    LET idx == FindIndex(db.machines, id)
    IN IF idx = 0
       THEN /\ last' = Response("simulate", id, Null, 404, Null)
            /\ UNCHANGED <<db, disk, env, now, nextId, inflight, mail, console, floating>>
       ELSE LET thresholds == OrElse(db.machines[idx].thresholds, DefaultThresholds)
                vital ==
                    [id |-> nextId,
                     machineId |-> id,
                     temperature |-> Some(RandAround10(
                         thresholds.temperature - ThresholdScale * TemperatureOffset,
                         TemperatureSpread, kt)),
                     vibration |-> Some(RandAround10(
                         thresholds.vibration - ThresholdScale * VibrationOffset,
                         VibrationSpread, kv)),
                     pressure |-> Some(RandAround10(
                         thresholds.pressure - ThresholdScale * PressureOffset,
                         PressureSpread, kp)),
                     timestamp |-> ToISOString(now)]
            IN /\ db' = Simulated(db, vital)
               /\ SaveDb(db')
               /\ nextId' = nextId + 1
               /\ last' = Response("simulate", id, Null, 201, Some(vital))
               /\ UNCHANGED <<env, now, inflight, mail, console, floating>>

----------------------------------------------------------------------------
(* The clock *)

\* the clock moves on to a later instant; no request is being answered
Tick(t) ==
    /\ t > now
    /\ now' = t
    /\ last' = Response("tick", 0, Null, 0, Null)
    /\ UNCHANGED <<db, disk, env, nextId, inflight, mail, console, floating>>

----------------------------------------------------------------------------
(* Requests, each from a set of inputs and within the bounds of a run *)

\* the ids a request can name: those of the stored machines and one that names
\* no machine
RequestIds == {db.machines[i].id : i \in DOMAIN db.machines} \cup {nextId}

Create(bodies, maxMachines) ==
    \E body \in bodies :
        /\ Len(db.machines) < maxMachines
        /\ nextId <= MaxIds
        /\ CreateMachine(body)

Update(bodies) == \E id \in RequestIds, body \in bodies : UpdateMachine(id, body)

Delete == \E id \in RequestIds : DeleteMachine(id)

Vitals(limits) == \E id \in RequestIds, q \in limits : ListVitals(id, q)

PostVital(bodies, maxVitals) ==
    \E id \in RequestIds, body \in bodies :
        /\ Len(db.vitals) < maxVitals
        /\ Cardinality(inflight) < MaxInflight
        /\ nextId <= MaxIds
        /\ AppendVital(id, body)

Settle == \E p \in inflight, delivered \in BOOLEAN : MailSettled(p, delivered)

SettleReminder == \E delivered \in BOOLEAN : ReminderSettled(delivered)

Sweep == CheckUpcomingMaintenance

Simulate(draws, maxVitals) ==
    \E id \in RequestIds, kt, kv, kp \in draws :
        /\ Len(db.vitals) < maxVitals
        /\ nextId <= MaxIds
        /\ SimulateVital(id, kt, kv, kp)

Advance(instants) == \E t \in instants : Tick(t)

InitWith(envs) ==
    /\ db = EmptyDb
    /\ disk = EmptyDb
    /\ env \in envs
    /\ now = 0
    /\ nextId = 1
    /\ inflight = {}
    /\ mail = <<>>
    /\ console = ""
    /\ floating = 0
    /\ last = Response("none", 0, Null, 0, Null)

Body(name, date, thresholds) ==
    [name |-> name, nextMaintenanceDate |-> date, thresholds |-> thresholds]

Reading(t, v, p, at) ==
    [temperature |-> t, vibration |-> v, pressure |-> p, timestamp |-> at]

----------------------------------------------------------------------------
(* Spec: one machine, its vitals and alerts, with updates and deletes between *)
(* the requests and while a mail is being delivered                           *)

Envs == {[to |-> TRUE, smtp |-> TRUE], [to |-> TRUE, smtp |-> FALSE]}

\* the instants the clock shows
Instants == {0, MinGapMinutes, MinGapMinutes + 1}

\* a maintenance date far beyond the lookahead window
FarDue == (LookaheadDays + 1) * MinutesPerDay + MinGapMinutes + 1

CreateBodies == {Body("pump", Some(FarDue), Null)}

UpdateBodies == {[name |-> "fan"], [lastAbnormalAlertSent |-> Null]}

AppendBodies ==
    {Reading(t, Undef, Undef, Null) :
        t \in {Num(10 * DefaultTemperature), Num(10 * DefaultTemperature + 1)}}

Init == InitWith(Envs)

Next ==
    \/ Create(CreateBodies, 1)
    \/ Update(UpdateBodies)
    \/ Delete
    \/ PostVital(AppendBodies, MaxVitals)
    \/ Settle
    \/ Advance(Instants)

Spec == Init /\ [][Next]_vars

----------------------------------------------------------------------------
(* SpecCrud: two machines created, updated and deleted, with vitals appended *)
(* and simulated, without a destination for the mails and with one           *)

CrudEnvs == {[to |-> FALSE, smtp |-> FALSE], [to |-> TRUE, smtp |-> TRUE]}

CrudCreateBodies ==
    {Body(n, d, Null) : n \in {"", "pump"}, d \in {Null, Some(FarDue)}}

CrudAppendBodies == {Reading(Num(10 * DefaultTemperature + 1), Undef, Undef, Null)}

CrudInit == InitWith(CrudEnvs)

CrudNext ==
    \/ Create(CrudCreateBodies, MaxMachines)
    \/ Delete
    \/ PostVital(CrudAppendBodies, MaxVitals)
    \/ Settle
    \/ Simulate({0}, MaxVitals)

SpecCrud == CrudInit /\ [][CrudNext]_vars

----------------------------------------------------------------------------
(* SpecList: the vitals of two machines, with timestamps given by the client, *)
(* listed with and without a limit                                            *)

ListEnvs == {[to |-> FALSE, smtp |-> FALSE]}

ListCreateBodies == {Body("pump", Some(FarDue), Null)}

ListAppendBodies == {Reading(Undef, Undef, Undef, at) : at \in {Null, Some(1), Some(2)}}

\* the limit of the query string: absent, or a string
Limits ==
    {Null, Some(<<"0">>), Some(<<"1">>), Some(<<"2">>), Some(<<"-", "1">>),
     Some(<<"a", "b", "c">>)}

ListInit == InitWith(ListEnvs)

ListNext ==
    \/ Create(ListCreateBodies, MaxMachines)
    \/ PostVital(ListAppendBodies, MaxVitals)
    \/ Vitals(Limits)

SpecList == ListInit /\ [][ListNext]_vars

----------------------------------------------------------------------------
(* SpecBreach: one machine with the default or with its own thresholds, and *)
(* readings below, at and above them                                        *)

BreachEnvs == {[to |-> TRUE, smtp |-> FALSE]}

OwnThresholds ==
    [temperature |-> ThresholdScale * 70,
     vibration |-> ThresholdScale * 5,
     pressure |-> ThresholdScale * 100]

BreachCreateBodies ==
    {Body("pump", Some(FarDue), th) : th \in {Null, Some(OwnThresholds)}}

\* a reading that is absent, at the own threshold, at the default one or above
Values(own, default) ==
    {Undef, Num(own \div (ThresholdScale \div 10)), Num(10 * default), Num(10 * default + 1)}

\* the timestamp of a request: absent, or an instant that is not the clock's
BreachTimestamps == {Null, Some(1)}

BreachAppendBodies ==
    {Reading(t, v, p, at) :
        t \in {Str} \cup Values(OwnThresholds.temperature, DefaultTemperature),
        v \in Values(OwnThresholds.vibration, DefaultVibration),
        p \in Values(OwnThresholds.pressure, DefaultPressure),
        at \in BreachTimestamps}

BreachInit == InitWith(BreachEnvs)

BreachNext ==
    \/ Create(BreachCreateBodies, 1)
    \/ PostVital(BreachAppendBodies, 1)
    \/ Delete

SpecBreach == BreachInit /\ [][BreachNext]_vars

----------------------------------------------------------------------------
(* SpecSweep: two machines with maintenance dates around the lookahead window, *)
(* swept at instants a minute and a day apart                                  *)

SweepEnvs == {[to |-> TRUE, smtp |-> TRUE]}

Lookahead == LookaheadDays * MinutesPerDay

SweepInstants == {0, 1, MinutesPerDay, MinutesPerDay + 1}

SweepCreateBodies ==
    {Body("pump", d, Null) : d \in {Some(0), Some(Lookahead + 1), Some(FarDue)}}

SweepUpdateBodies == {[nextMaintenanceDate |-> Null]}

SweepInit == InitWith(SweepEnvs)

SweepNext ==
    \/ Create(SweepCreateBodies, MaxMachines)
    \/ Update(SweepUpdateBodies)
    \/ Sweep
    \/ Advance(SweepInstants)

SpecSweep == SweepInit /\ [][SweepNext]_vars

\* setInterval calls checkUpcomingMaintenance every minute for as long as the
\* process runs: a sweep that has something to do is not put off for ever
SpecSweepFair == SpecSweep /\ WF_vars(Sweep)

----------------------------------------------------------------------------
(* SpecStore: two machines and their vitals under every operation that *)
(* writes the store, with a notifier that has no destination           *)

StoreEnvs == {[to |-> FALSE, smtp |-> FALSE]}

\* a machine whose maintenance is due
StoreCreateBodies == {Body("pump", Some(0), Null)}

\* an id that no machine has, as a field of a body
OtherId == MaxIds + 5

\* a new name, and no name under another id
StoreUpdateBodies == {[name |-> "fan"], [id |-> OtherId, name |-> ""]}

StoreAppendBodies == {Reading(Num(10 * DefaultTemperature), Undef, Undef, Null)}

StoreLimits == {Some(<<"1">>)}

StoreInit == InitWith(StoreEnvs)

StoreNext ==
    \/ Create(StoreCreateBodies, MaxMachines)
    \/ Update(StoreUpdateBodies)
    \/ Delete
    \/ PostVital(StoreAppendBodies, MaxSimVitals)
    \/ Simulate({0}, MaxSimVitals)
    \/ Vitals(StoreLimits)
    \/ Sweep

SpecStore == StoreInit /\ [][StoreNext]_vars

----------------------------------------------------------------------------
(* SpecRead: two machines created, renamed, reminded and deleted, with a *)
(* vital, and the list of machines and the health check between          *)

ReadEnvs == {[to |-> FALSE, smtp |-> FALSE]}

ReadCreateBodies == {Body("pump", Some(0), Null)}

ReadUpdateBodies == {[name |-> "fan"]}

ReadAppendBodies == {Reading(Num(10 * DefaultTemperature), Undef, Undef, Null)}

ReadInit == InitWith(ReadEnvs)

ReadNext ==
    \/ Create(ReadCreateBodies, MaxMachines)
    \/ Update(ReadUpdateBodies)
    \/ Delete
    \/ PostVital(ReadAppendBodies, MaxSimVitals - 1)
    \/ Sweep
    \/ ListMachines
    \/ Health

SpecRead == ReadInit /\ [][ReadNext]_vars

----------------------------------------------------------------------------
(* SpecNotify: one machine due for maintenance, with every configuration of *)
(* the notifier, and deliveries that succeed or fail                        *)

NotifyEnvs == [to : BOOLEAN, smtp : BOOLEAN]

NotifyCreateBodies == {Body("pump", Some(0), Null)}

NotifyAppendBodies ==
    {Reading(t, Undef, Undef, Null) : t \in {Undef, Num(10 * DefaultTemperature + 1)}}

NotifyUpdateBodies == {[name |-> "fan"]}

NotifyInit == InitWith(NotifyEnvs)

NotifyNext ==
    \/ Create(NotifyCreateBodies, 1)
    \/ Delete
    \/ PostVital(NotifyAppendBodies, MaxVitals)
    \/ Settle
    \/ Sweep
    \/ SettleReminder
    \/ Update(NotifyUpdateBodies)
    \/ Simulate({0}, MaxSimVitals)

SpecNotify == NotifyInit /\ [][NotifyNext]_vars

----------------------------------------------------------------------------
(* SpecSim: one machine with the default or with its own thresholds, whole or *)
(* with one or two decimals, alerted or not, and readings simulated from the  *)
(* least, the middle and the greatest random draw                             *)

SimEnvs == {[to |-> TRUE, smtp |-> FALSE]}

\* thresholds with one decimal: 80.1, 10.1 and 200.1
TenthThresholds ==
    [temperature |-> ThresholdScale * 80 + 10,
     vibration |-> ThresholdScale * 10 + 10,
     pressure |-> ThresholdScale * 200 + 10]

\* thresholds with two decimals: 80.06, 10.06 and 200.06
FineThresholds ==
    [temperature |-> ThresholdScale * 80 + 6,
     vibration |-> ThresholdScale * 10 + 6,
     pressure |-> ThresholdScale * 200 + 6]

SimCreateBodies ==
    {Body("pump", Some(FarDue), th) :
        th \in {Null, Some(OwnThresholds), Some(TenthThresholds), Some(FineThresholds)}}

SimAppendBodies == {Reading(Num(10 * DefaultTemperature + 1), Undef, Undef, Null)}

\* the values of Math.random(), as steps: 0, one half, and the last below 1
Draws == {0, RandomSteps \div 2, RandomSteps - 1}

SimInit == InitWith(SimEnvs)

SimNext ==
    \/ Create(SimCreateBodies, 1)
    \/ PostVital(SimAppendBodies, MaxSimVitals)
    \/ Simulate(Draws, MaxSimVitals)
    \/ Delete

SpecSim == SimInit /\ [][SimNext]_vars

----------------------------------------------------------------------------
(* What the properties speak of *)

\* the machine with this id is in the store
Stored(d, id) == \E i \in DOMAIN d.machines : d.machines[i].id = id

\* the machine of the store with this id
MachineOf(d, id) == d.machines[CHOOSE i \in DOMAIN d.machines : d.machines[i].id = id]

\* the alerts among the calls of the notifier
AlertsOf(id) == {i \in DOMAIN mail : mail[i].kind = "alert" /\ mail[i].id = id}

\* the suspended append requests that resume and answer in this step
Resumed == {p \in inflight : \A q \in inflight' : q.answer # p.answer}

\* this step is the arrival of an append request that stores a vital
AppendArrives == last'.op = "append" /\ nextId' = nextId + 1

----------------------------------------------------------------------------
(* Alerts *)

\* C1: two alerts for one machine are never sent within the minimum gap of
\* one another, however the append requests interleave
C1_OneAlertPerGap ==
    \A id \in 1..nextId : \A i, j \in AlertsOf(id) :
        i < j => mail[j].at - mail[i].at > MinGapMinutes

\* C2: an abnormal vital is followed by a notification exactly when the machine
\* has no lastAbnormalAlertSent or more than the minimum gap has passed since
\* it; at exactly the gap nothing is sent
C2_SentIffGapExceeded ==
    [][AppendArrives =>
          LET m == MachineOf(db, last'.id)
              v == db'.vitals[Len(db'.vitals)]
              sent == mail' = Append(mail, Notice("alert", m.id, now))
          IN Abnormal(v, OrElse(m.thresholds, DefaultThresholds)) =>
                /\ sent \/ mail' = mail
                /\ sent <=> \/ m.lastAbnormalAlertSent = Null
                            \/ now - m.lastAbnormalAlertSent[1] > MinGapMinutes]_vars

\* C2 happens: alerts at 0 and at gap + 1, none for the breach at exactly the gap
C2_Witness ==
    /\ Len(db.vitals) = 3
    /\ \A i \in 1..3 : db.vitals[i].temperature = Some(10 * DefaultTemperature + 1)
    /\ db.vitals[2].timestamp = Some(MinGapMinutes)
    /\ Len(mail) = 2
    /\ mail[1].at = 0
    /\ mail[2].at = MinGapMinutes + 1
    /\ mail[1].id = mail[2].id
    /\ inflight = {}

\* C8: when an append request that sent a notification answers and its machine
\* is in the store, the machine's lastAbnormalAlertSent is the time of the send
C8_StampedOnAnswer ==
    [][/\ (AppendArrives /\ last'.status = 201 /\ Len(mail') > Len(mail)) =>
              MachineOf(db', last'.id).lastAbnormalAlertSent = Some(now)
       /\ \A p \in Resumed :
              Stored(db', p.id) =>
                  MachineOf(db', p.id).lastAbnormalAlertSent = Some(p.at)]_vars

\* C10: no append request waits for the delivery: while a delivery is under
\* way the vital is already persisted and the machine already stamped
C10_NoWaitForDelivery ==
    \A p \in inflight :
        Stored(db, p.id) =>
            /\ \E i \in DOMAIN disk.vitals : disk.vitals[i] = p.answer.vital
            /\ Stored(disk, p.id)
            /\ MachineOf(disk, p.id).lastAbnormalAlertSent = Some(p.at)

----------------------------------------------------------------------------
(* Machines and vitals *)

\* C3: a delete of a stored machine removes it and its vitals and nothing
\* else; a delete of an unknown id answers 404 and changes nothing
C3_DeleteCascades ==
    [][last'.op = "delete" =>
          LET id == last'.id
              NotIt(m) == m.id # id
              NotOfIt(v) == v.machineId # id
          IN IF Stored(db, id)
             THEN /\ last'.status = 204
                  /\ db'.machines = SelectSeq(db.machines, NotIt)
                  /\ db'.vitals = SelectSeq(db.vitals, NotOfIt)
                  /\ disk' = db'
             ELSE /\ last'.status = 404
                  /\ db' = db
                  /\ disk' = disk]_vars

\* C3 happens: machine 1 and its vital 3 are deleted, machine 2 and its
\* vital 4 stay
C3_Witness ==
    /\ last.op = "delete" /\ last.status = 204 /\ last.id = 1
    /\ Len(db.machines) = 1 /\ db.machines[1].id = 2
    /\ Len(db.vitals) = 1 /\ db.vitals[1].id = 4 /\ db.vitals[1].machineId = 2
    /\ nextId = 5

\* C5: a create request without name or without nextMaintenanceDate answers
\* 400 and changes neither the store nor the file
C5_InvalidCreateRejected ==
    [][(/\ last'.op = "create"
        /\ last'.req.name = "" \/ last'.req.nextMaintenanceDate = Null) =>
          /\ last'.status = 400
          /\ db' = db
          /\ disk' = disk]_vars

\* C5 happens: a create with a name and no date was rejected by a store that
\* holds a machine
C5_Witness ==
    /\ last.op = "create" /\ last.status = 400
    /\ last.req.name # "" /\ last.req.nextMaintenanceDate = Null
    /\ Len(db.machines) = 1
    /\ disk = db

\* C7: an append or simulate request for an unknown machine answers 404,
\* stores no vital and sends nothing; every vital that enters the store names a
\* machine that is in the store then
C7_UnknownMachineRejected ==
    [][/\ (last'.op \in {"append", "simulate"} /\ Resumed = {}
             /\ ~Stored(db, last'.id)) =>
              /\ last'.status = 404
              /\ db' = db /\ disk' = disk /\ mail' = mail
       /\ \A i \in DOMAIN db'.vitals :
              (\A j \in DOMAIN db.vitals : db.vitals[j].id # db'.vitals[i].id) =>
                  Stored(db, db'.vitals[i].machineId)]_vars

\* C7 happens: an append for an unknown id was rejected by a store that holds
\* a machine and a vital
C7_Witness ==
    /\ last.op = "append" /\ last.status = 404
    /\ Len(db.machines) >= 1 /\ Len(db.vitals) >= 1
    /\ ~Stored(db, last.id)

\* C4: a list of vitals holds only vitals of the machine, ascending by
\* timestamp, no more of them than the limit asked for (50 when none is), and
\* the most recent ones
C4_ListWithinLimit ==
    last.op = "list" =>
        LET r == last.body[1]
            mine == {db.vitals[i] : i \in {j \in DOMAIN db.vitals :
                                              db.vitals[j].machineId = last.id}}
            asked == IF last.req = Null THEN Some(50) ELSE ParseInt(last.req[1])
        IN /\ \A k \in DOMAIN r : r[k] \in mine
           /\ \A k, l \in DOMAIN r : k < l => r[k].timestamp[1] <= r[l].timestamp[1]
           /\ asked # Null =>
                  Len(r) <= (IF asked[1] > 0 THEN asked[1] ELSE 0)
           /\ \A v \in mine : (\A k \in DOMAIN r : r[k] # v) =>
                  \A k \in DOMAIN r : v.timestamp[1] <= r[k].timestamp[1]

\* C6: the abnormal flag of an answer is true exactly when one of the three
\* readings is a number strictly above the machine's threshold for it
C6_AbnormalIffBreach ==
    (last.op = "append" /\ last.status = 201 /\ Stored(db, last.id)) =>
        LET v == last.body[1].vital
            th == MachineOf(db, last.id).thresholds[1]
            Above(x, limit) == x # Null /\ 10 * x[1] > limit
        IN last.body[1].abnormal <=>
               \/ Above(v.temperature, th.temperature)
               \/ Above(v.vibration, th.vibration)
               \/ Above(v.pressure, th.pressure)

\* C6 happens: readings equal to the default thresholds and an absent one are
\* answered as not abnormal
C6_Witness ==
    /\ last.op = "append" /\ last.status = 201 /\ Stored(db, last.id)
    /\ MachineOf(db, last.id).thresholds[1] = DefaultThresholds
    /\ last.body[1].vital.temperature = Some(10 * DefaultTemperature)
    /\ last.body[1].vital.vibration = Null
    /\ last.body[1].vital.pressure = Some(10 * DefaultPressure)
    /\ ~last.body[1].abnormal

----------------------------------------------------------------------------
(* Reminders *)

\* C9: a sweep reminds and stamps a machine with a maintenance date exactly when
\* the date is at most the lookahead away (or past) and no reminder was sent
\* or the last one is at least a day old; it leaves the other machines as
\* they are
C9_SweepRemindsWhenDue ==
    [][last'.op = "sweep" =>
          /\ DOMAIN db'.machines = DOMAIN db.machines
          /\ \A i \in DOMAIN db.machines :
                LET m == db.machines[i]
                    due == /\ m.nextMaintenanceDate[1] - now
                                  <= LookaheadDays * MinutesPerDay
                           /\ \/ m.lastMaintenanceReminderSent = Null
                              \/ now - m.lastMaintenanceReminderSent[1] >= MinutesPerDay
                    reminded == \E k \in (Len(mail) + 1)..Len(mail') :
                                    mail'[k] = Notice("reminder", m.id, now)
                IN m.nextMaintenanceDate # Null =>
                       IF due
                       THEN /\ reminded
                            /\ db'.machines[i] =
                                  [m EXCEPT !.lastMaintenanceReminderSent = Some(now)]
                       ELSE /\ ~reminded
                            /\ db'.machines[i] = m]_vars

\* C9 happens: a machine reminded at 0 is reminded again exactly a day later by
\* a sweep that leaves a machine with a far date alone
C9_Witness ==
    /\ last.op = "sweep" /\ now = MinutesPerDay
    /\ \E i, j \in DOMAIN mail :
          /\ mail[i] = Notice("reminder", mail[j].id, 0)
          /\ mail[j] = Notice("reminder", mail[i].id, MinutesPerDay)
    /\ \E i \in DOMAIN db.machines :
          /\ db.machines[i].nextMaintenanceDate = Some(FarDue)
          /\ db.machines[i].lastMaintenanceReminderSent = Null

----------------------------------------------------------------------------
(* Failures of the notifier *)

\* C11: no outcome of the notifier reaches a caller.  With or without a
\* destination and a transport, an append request for a stored machine stores
\* its vital on arrival and is answered 201 with the vital and its verdict,
\* at once or when the delivery settles, delivered or not; a sweep stamps
\* every machine it reminds and saves the store; and no settled delivery,
\* of an alert or of a reminder, calls the notifier again
C11_FailureNotSurfaced ==
    [][/\ AppendArrives =>
            /\ Len(db'.vitals) = Len(db.vitals) + 1
            /\ db'.vitals[Len(db'.vitals)].id = nextId
            /\ last'.status \in {0, 201}
            /\ last'.status = 201 =>
                   /\ last'.body # Null
                   /\ last'.body[1].vital = db'.vitals[Len(db'.vitals)]
                   /\ last'.body[1].abnormal \in BOOLEAN
                   /\ disk' = db'
            /\ last'.status = 0 =>
                   \E p \in inflight' \ inflight :
                       p.answer[1].vital = db'.vitals[Len(db'.vitals)]
       /\ \A p \in Resumed :
            /\ last' = Response("append", p.id, p.req, 201, p.answer)
            /\ mail' = mail
            /\ disk' = db'
       /\ last'.op = "sweep" =>
            /\ disk' = db'
            /\ inflight' = inflight
            /\ \A i \in DOMAIN mail' : i > Len(mail) =>
                   /\ Stored(db', mail'[i].id)
                   /\ MachineOf(db', mail'[i].id).lastMaintenanceReminderSent = Some(now)
       /\ last'.op = "settled" => mail' = mail /\ db' = db /\ disk' = disk
      ]_vars

\* a delivery has failed, and the append that awaited it was answered 201 with
\* its vital, which is in the saved store
C11_Witness ==
    /\ console = Outcome(FALSE)
    /\ last.op = "append"
    /\ last.status = 201
    /\ \E i \in DOMAIN disk.vitals : disk.vitals[i] = last.body[1].vital

----------------------------------------------------------------------------
(* Simulated readings *)

\* C12: a simulate request that succeeds appends one vital for its machine
\* and answers with it; it calls the notifier for nothing, logs nothing, and
\* leaves every machine, with its two stamps, and every earlier vital as
\* they were
C12_SimulateOnlyAppends ==
    [][last'.op = "simulate" /\ last'.status = 201 =>
           /\ mail' = mail
           /\ console' = console
           /\ inflight' = inflight
           /\ floating' = floating
           /\ db'.machines = db.machines
           /\ Len(db'.vitals) = Len(db.vitals) + 1
           /\ SubSeq(db'.vitals, 1, Len(db.vitals)) = db.vitals
           /\ db'.vitals[Len(db'.vitals)].machineId = last'.id
           /\ last'.body = Some(db'.vitals[Len(db'.vitals)])
      ]_vars

\* a reading was simulated for a machine that has its own thresholds and was
\* alerted before
C12_Witness ==
    /\ last.op = "simulate"
    /\ last.status = 201
    /\ Stored(db, last.id)
    /\ MachineOf(db, last.id).lastAbnormalAlertSent # Null
    /\ MachineOf(db, last.id).thresholds = Some(OwnThresholds)
    /\ Len(db.vitals) = 2
    /\ Len(mail) = 1

\* the simulated vitals of the machines that have the default thresholds
DefaultSimulated ==
    IF last.op = "simulate" /\ last.status = 201 /\ Stored(db, last.id)
          /\ MachineOf(db, last.id).thresholds = Some(DefaultThresholds)
    THEN {last.body[1]}
    ELSE {}

\* C18: with the thresholds 80, 10 and 200, every simulated reading, in
\* tenths, lies within [-18, 98] for the temperature, [-6, 10] for the
\* vibration and [-50, 190] for the pressure, for the draws 0, 1/2 and the
\* last one below 1
C18_SimulatedWithinRange ==
    \A v \in DefaultSimulated :
        /\ -180 <= v.temperature[1] /\ v.temperature[1] <= 980
        /\ -60 <= v.vibration[1] /\ v.vibration[1] <= 100
        /\ -500 <= v.pressure[1] /\ v.pressure[1] <= 1900

\* the greatest draw gives the vibration 10.0 and the pressure 190.0, the
\* upper ends of their ranges
C18_Witness ==
    \E v \in DefaultSimulated :
        /\ v.vibration[1] = 100
        /\ v.pressure[1] = 1900
        /\ v.temperature[1] = 780

----------------------------------------------------------------------------
(* The store under every operation *)

\* C13: an update of an id that names no machine answers 404 and leaves the
\* store and the file as they were; an update of a stored machine gives it
\* every field of the body but the id, keeps its other fields and its id,
\* leaves the other machines and all vitals as they were, and answers with
\* the merged machine
C13_UpdateMergesBody ==
    [][last'.op = "update" =>
         IF ~Stored(db, last'.id)
         THEN last'.status = 404 /\ db' = db /\ disk' = disk
         ELSE /\ last'.status = 200
              /\ Stored(db', last'.id)
              /\ LET old == MachineOf(db, last'.id)
                     new == MachineOf(db', last'.id)
                     body == last'.req
                 IN /\ new.id = last'.id
                    /\ DOMAIN new = (DOMAIN old) \cup (DOMAIN body)
                    /\ \A k \in (DOMAIN body) \ {"id"} : new[k] = body[k]
                    /\ \A k \in (DOMAIN old) \ (DOMAIN body) : new[k] = old[k]
                    /\ last'.body = Some(new)
              /\ Len(db'.machines) = Len(db.machines)
              /\ \A i \in DOMAIN db.machines :
                     IF db.machines[i].id = last'.id
                     THEN db'.machines[i].id = last'.id
                     ELSE db'.machines[i] = db.machines[i]
              /\ db'.vitals = db.vitals
      ]_vars

\* the second of two machines was updated with a body that carries another
\* id, while vitals are stored
C13_Witness ==
    /\ last.op = "update"
    /\ last.status = 200
    /\ last.req = [id |-> OtherId, name |-> ""]
    /\ Len(db.machines) = 2
    /\ db.machines[2].id = last.id
    /\ db.machines[1].name = "fan"
    /\ Len(db.vitals) = 2

\* C15: every stored machine has a name that is not empty and a maintenance
\* date that is set
C15_RequiredFieldsSet ==
    \A i \in DOMAIN db.machines :
        /\ db.machines[i].name # ""
        /\ db.machines[i].nextMaintenanceDate # Null

\* C17: a vital of the store is in the store after every step, the same in
\* every field, unless the step is the delete of the machine it names
C17_VitalsImmutable ==
    [][\A i \in DOMAIN db.vitals :
           \/ \E j \in DOMAIN db'.vitals : db'.vitals[j] = db.vitals[i]
           \/ /\ last'.op = "delete"
              /\ last'.status = 204
              /\ last'.id = db.vitals[i].machineId
      ]_vars

\* a sweep has reminded a machine while an appended and a simulated vital are
\* stored, after a delete that left them in the store
C17_Witness ==
    /\ last.op = "sweep"
    /\ Len(db.vitals) = 2
    /\ db.vitals[1].vibration = Null
    /\ db.vitals[2].vibration # Null
    /\ Len(db.machines) = 1
    /\ db.machines[1].id = 2
    /\ db.machines[1].lastMaintenanceReminderSent # Null

\* C19: the machines of the store are in the order of their creation, which
\* is the order of their ids, and the list of machines answers with them in
\* that order
C19_MachinesInInsertionOrder ==
    /\ \A i, j \in DOMAIN db.machines :
           i < j => db.machines[i].id < db.machines[j].id
    /\ last.op = "machines" => last.status = 200 /\ last.body = Some(db.machines)

\* two machines are listed after the first machine created was deleted and
\* the older of the two was renamed and reminded
C19_Witness ==
    /\ last.op = "machines"
    /\ Len(db.machines) = 2
    /\ db.machines[1].id = 2
    /\ db.machines[1].name = "fan"
    /\ db.machines[1].lastMaintenanceReminderSent # Null
    /\ db.machines[2].id = 3
    /\ db.machines[2].lastMaintenanceReminderSent = Null

\* C20: the health check answers 200 with the number of machines of the
\* store and changes nothing of the store, the file and the notifier
C20_HealthCountsMachines ==
    [][last'.op = "health" =>
           /\ last'.status = 200
           /\ last'.body = Some(Len(db.machines))
           /\ UNCHANGED <<db, disk, env, now, nextId, inflight, mail, console, floating>>
      ]_vars

\* the health check counted two machines while one vital was stored
C20_Witness ==
    /\ last.op = "health"
    /\ last.body = Some(2)
    /\ Len(db.vitals) = 1

----------------------------------------------------------------------------
(* The file *)

\* C14: when a create, an update, a delete, an append or a simulate request
\* has been answered with success, and when a sweep has ended, the file holds
\* the store as it is in memory
C14_SavedBeforeAnswer ==
    \/ /\ last.op \in {"create", "update", "delete", "append", "simulate"}
       /\ last.status \in {200, 201, 204}
    \/ last.op = "sweep"
    => disk = db

\* an append was answered after its mail was delivered, and the file holds its
\* vital and the stamp of the alert
C14_Witness ==
    /\ last.op = "append"
    /\ last.status = 201
    /\ console = Outcome(TRUE)
    /\ disk.vitals # <<>>
    /\ \E i \in DOMAIN disk.machines : disk.machines[i].lastAbnormalAlertSent # Null

----------------------------------------------------------------------------
(* Defaults of a new machine *)

\* C16: a machine created without thresholds is stored, and returned, with
\* the thresholds 80, 10 and 200 and with neither a reminder nor an alert
\* stamped
C16_DefaultThresholdsOnCreate ==
    last.op = "create" /\ last.status = 201 /\ last.req.thresholds = Null =>
        /\ last.body # Null
        /\ last.body[1].thresholds =
               Some([temperature |-> 80 * ThresholdScale,
                     vibration |-> 10 * ThresholdScale,
                     pressure |-> 200 * ThresholdScale])
        /\ last.body[1].lastMaintenanceReminderSent = Null
        /\ last.body[1].lastAbnormalAlertSent = Null
        /\ Stored(db, last.id)
        /\ MachineOf(db, last.id) = last.body[1]
        /\ Stored(disk, last.id)
        /\ MachineOf(disk, last.id) = last.body[1]

\* a machine was created without thresholds, after an earlier one was alerted
\* and deleted
C16_Witness ==
    /\ last.op = "create"
    /\ last.status = 201
    /\ last.req.thresholds = Null
    /\ Len(db.machines) = 1
    /\ mail # <<>>

----------------------------------------------------------------------------
(* The fields of an appended vital *)

\* C21: the vital that an append stores has, for each of the three readings,
\* the value of the request when that is a number and null when it is absent
\* or of another type, and for its timestamp the one of the request when
\* there is one and the time of the clock otherwise
C21_VitalFieldsFromBody ==
    [][AppendArrives =>
           LET vital == db'.vitals[Len(db'.vitals)]
               body == last'.req
               Stored1(x) == IF x.type = "number" THEN Some(x.v) ELSE Null
           IN /\ vital.temperature = Stored1(body.temperature)
              /\ vital.vibration = Stored1(body.vibration)
              /\ vital.pressure = Stored1(body.pressure)
              /\ vital.timestamp = IF body.timestamp # Null THEN body.timestamp
                                    ELSE Some(now)
              /\ vital.machineId = last'.id
      ]_vars

\* a vital was stored from a body with a temperature that is a string, no
\* vibration, a pressure that is a number and a timestamp of its own
C21_Witness ==
    /\ last.op = "append"
    /\ last.status = 201
    /\ last.req.temperature = Str
    /\ last.req.vibration = Undef
    /\ last.req.pressure = Num(10 * DefaultPressure + 1)
    /\ last.req.timestamp = Some(1)
    /\ last.body[1].vital.temperature = Null
    /\ last.body[1].vital.vibration = Null
    /\ last.body[1].vital.pressure = Some(10 * DefaultPressure + 1)
    /\ last.body[1].vital.timestamp = Some(1)
    /\ db.vitals = <<last.body[1].vital>>

----------------------------------------------------------------------------
(* The verdict and the gap *)

\* the flag that an arriving append request answers with, at once or after
\* its mail has settled
ArrivingFlag ==
    IF last'.status = 201
    THEN last'.body[1].abnormal
    ELSE \E p \in inflight' \ inflight : p.answer[1].abnormal

\* C27: the flag of an append is decided by the readings and the thresholds
\* alone: it is true exactly when a reading is above its threshold, whether
\* the machine was never alerted, was alerted within the gap or longer ago,
\* and whether a notification goes out or not
C27_FlagIgnoresGap ==
    [][AppendArrives =>
           LET m == MachineOf(db, last'.id)
               v == db'.vitals[Len(db'.vitals)]
               th == m.thresholds[1]
               Above(x, limit) == x # Null /\ 10 * x[1] > limit
               breach == \/ Above(v.temperature, th.temperature)
                         \/ Above(v.vibration, th.vibration)
                         \/ Above(v.pressure, th.pressure)
           IN /\ ArrivingFlag <=> breach
              /\ (breach /\ mail' = mail) => last'.status = 201 /\ last'.body[1].abnormal
      ]_vars

\* a breach at exactly the gap after the alert of its machine was answered as
\* abnormal, and no notification went out for it
C27_Witness ==
    /\ last.op = "append"
    /\ last.status = 201
    /\ last.body[1].abnormal
    /\ last.body[1].vital.timestamp = Some(MinGapMinutes)
    /\ Stored(db, last.id)
    /\ MachineOf(db, last.id).lastAbnormalAlertSent = Some(0)
    /\ Cardinality(AlertsOf(last.id)) = 1
    /\ inflight = {}

\* the notifier was called for this machine at most the minimum gap ago
AttemptedWithinGap(id) ==
    \E i \in AlertsOf(id) : now - mail[i].at <= MinGapMinutes

\* C26: every call of the notifier for a breach leaves the machine stamped,
\* without a destination, with a simulated send, and after a delivery that
\* succeeded or failed, so that a breach which arrives within the minimum gap
\* of a call makes no further call
C26_AttemptStampsWhateverOutcome ==
    [][/\ (AppendArrives /\ mail' # mail /\ ~Delivers(env)) =>
              MachineOf(db', last'.id).lastAbnormalAlertSent = Some(now)
       /\ \A p \in Resumed :
              Stored(db', p.id) => MachineOf(db', p.id).lastAbnormalAlertSent # Null
       /\ (AppendArrives /\ AttemptedWithinGap(last'.id)) => mail' = mail
      ]_vars

----------------------------------------------------------------------------
(* Deletes between the requests of a machine *)

\* the vitals of a store that name this machine
VitalsNaming(d, id) == {i \in DOMAIN d.vitals : d.vitals[i].machineId = id}

\* C23: every vital of the store names a machine of the store, in every state
\* that creates, updates, deletes, appends, simulated readings and sweeps
\* lead to, also while appends wait for their mails
C23_VitalsNameStoredMachines ==
    \A i \in DOMAIN db.vitals : Stored(db, db.vitals[i].machineId)

\* an append of a deleted machine is still waiting for its mail, and the
\* store holds a vital of a machine created since
C23_Witness ==
    /\ \E p \in inflight : ~Stored(db, p.id) /\ VitalsNaming(db, p.id) = {}
    /\ db.vitals # <<>>
    /\ db.machines # <<>>

\* C24: when an append resumes after the delete of its machine, the store and
\* the file hold neither the machine nor a vital of it once it has stamped,
\* saved and answered
C24_DeleteIsFinal ==
    [][\A p \in Resumed :
           ~Stored(db, p.id) =>
               /\ ~Stored(db', p.id)
               /\ VitalsNaming(db', p.id) = {}
               /\ ~Stored(disk', p.id)
               /\ VitalsNaming(disk', p.id) = {}
      ]_vars

\* an append was answered after its machine was deleted and its mail was
\* delivered: the store and the file are empty
C24_Witness ==
    /\ last.op = "append"
    /\ last.status = 201
    /\ console = Outcome(TRUE)
    /\ ~Stored(db, last.id)
    /\ db = EmptyDb
    /\ disk = EmptyDb
    /\ inflight = {}

----------------------------------------------------------------------------
(* What a sweep and an append leave alone *)

\* the machines differ in nothing but this field
SameBut(field, old, new) ==
    /\ Len(new) = Len(old)
    /\ \A i \in DOMAIN old : [new[i] EXCEPT ![field] = old[i][field]] = old[i]

----------------------------------------------------------------------------
(* Reminders over the days *)

\* the reminders among the calls of the notifier
RemindersOf(id) == {i \in DOMAIN mail : mail[i].kind = "reminder" /\ mail[i].id = id}

\* the maintenance date of the machine is set and at most the lookahead away
InWindow(machine) ==
    /\ machine.nextMaintenanceDate # Null
    /\ machine.nextMaintenanceDate[1] - now <= LookaheadDays * MinutesPerDay

\* the machine is in the store, its date is in the window, and it was never
\* reminded or a day has passed since its last reminder
AwaitsReminder(id) ==
    /\ Stored(db, id)
    /\ InWindow(MachineOf(db, id))
    /\ \/ MachineOf(db, id).lastMaintenanceReminderSent = Null
       \/ now - MachineOf(db, id).lastMaintenanceReminderSent[1] >= MinutesPerDay

\* the machine has left the store or the window, or a reminder was sent for
\* it less than a day ago
Served(id) ==
    \/ ~Stored(db, id)
    \/ ~InWindow(MachineOf(db, id))
    \/ \E i \in RemindersOf(id) :
           /\ now - mail[i].at < MinutesPerDay
           /\ MachineOf(db, id).lastMaintenanceReminderSent = Some(mail[i].at)

\* C22: with the timer firing, a machine that is due for a reminder, for the
\* first time or a day after the last one, is reminded unless it leaves the
\* store or the window first; and every reminder is for a stored machine whose
\* date is in the window at that time
C22_DueMachinesReminded ==
    /\ \A id \in 1..MaxIds : AwaitsReminder(id) ~> Served(id)
    /\ [][\A k \in DOMAIN mail' :
              (k > Len(mail) /\ mail'[k].kind = "reminder") =>
                  /\ Stored(db, mail'[k].id)
                  /\ InWindow(MachineOf(db, mail'[k].id))
         ]_vars

\* a machine in the window was reminded on two days, next to a machine with a
\* far date that was never reminded
C22_Witness ==
    /\ Len(db.machines) = 2
    /\ Cardinality(RemindersOf(db.machines[1].id)) = 2
    /\ db.machines[1].lastMaintenanceReminderSent = Some(MinutesPerDay + 1)
    /\ db.machines[2].nextMaintenanceDate = Some(FarDue)
    /\ RemindersOf(db.machines[2].id) = {}

\* C25: two reminders for one machine are at least a day apart
C25_RemindersADayApart ==
    \A id \in 1..MaxIds : \A i, j \in RemindersOf(id) :
        i < j => mail[j].at - mail[i].at >= MinutesPerDay

\* a machine reminded at minute 1 was reminded again exactly a day later, and
\* not by the sweeps between
C25_Witness ==
    \E id \in 1..MaxIds :
        /\ Cardinality(RemindersOf(id)) = 2
        /\ \E i, j \in RemindersOf(id) :
               mail[i].at = 1 /\ mail[j].at = MinutesPerDay + 1
        /\ last.op = "sweep"
        /\ now = MinutesPerDay + 1

----------------------------------------------------------------------------
(* Simulated readings and the thresholds *)

\* the simulated vital of the last answer stays below the thresholds it was
\* drawn from: the temperature by 2, the pressure by 10, the vibration by
\* nothing, so that none of the three is a breach
BelowThresholds(v, th) ==
    /\ 10 * v.temperature[1] <= th.temperature - 2 * ThresholdScale
    /\ 10 * v.vibration[1] <= th.vibration
    /\ 10 * v.pressure[1] <= th.pressure - 10 * ThresholdScale
    /\ ~(10 * v.temperature[1] > th.temperature)
    /\ ~(10 * v.vibration[1] > th.vibration)
    /\ ~(10 * v.pressure[1] > th.pressure)

SimulateAnswered == last.op = "simulate" /\ last.status = 201 /\ Stored(db, last.id)

\* C29, as claimed: whatever numbers the thresholds of the machine are, a
\* simulated reading is at most the threshold less 2 for the temperature, the
\* threshold for the vibration and the threshold less 10 for the pressure,
\* and is no breach
C29_SimulatedBelowThresholds ==
    SimulateAnswered =>
        BelowThresholds(last.body[1], MachineOf(db, last.id).thresholds[1])

\* C29, amended: the same for thresholds that are multiples of 0.1, the step
\* that the readings are rounded to
C29_SimulatedBelowTenthThresholds ==
    SimulateAnswered =>
        LET th == MachineOf(db, last.id).thresholds[1]
        IN (\A f \in DOMAIN th : th[f] % (ThresholdScale \div 10) = 0) =>
               BelowThresholds(last.body[1], th)

\* with the thresholds 80.1, 10.1 and 200.1 the greatest draw gives 78.1, 10.1
\* and 190.1: the vibration equals its threshold
C29_Witness ==
    /\ SimulateAnswered
    /\ MachineOf(db, last.id).thresholds = Some(TenthThresholds)
    /\ 10 * last.body[1].vibration[1] = TenthThresholds.vibration
    /\ 10 * last.body[1].temperature[1] = TenthThresholds.temperature - 2 * ThresholdScale
    /\ 10 * last.body[1].pressure[1] = TenthThresholds.pressure - 10 * ThresholdScale

====
